---- MODULE Spec2Model ----
(***************************************************************************)
(* A model of src/scraper.py: the retrying retriever (fetch_data), the     *)
(* table extractor (parse_data), persistence (save_to_csv), the            *)
(* orchestration (scrape_statistic) and the interactive loop (main).       *)
(*                                                                         *)
(* Python values are modelled as tagged records so that None, NaN, numbers *)
(* and exceptions can be compared with one another.  Texts are sequences   *)
(* of one-character strings, so that strip() and float() are computed.     *)
(* Floats are held in tenths (27.3 is 273); every numeric text of the      *)
(* model has at most one fractional digit.                                 *)
(***************************************************************************)
EXTENDS Integers, Sequences, FiniteSets, TLC

VARIABLES
    \* the frame of fetch_data
    max_retries, delay, attempt, fpc, wait_time, trace, fresult,
    \* the arguments and the result of a direct call of parse_data
    html_content, stat_id, presult,
    \* main and the scrape_statistic call it makes
    pc, choice, df, csv_path, out, failure

fetchVars == <<max_retries, delay, attempt, fpc, wait_time, trace, fresult>>
parseVars == <<html_content, stat_id, presult>>
mainVars  == <<pc, choice, df, csv_path, out, failure>>
vars      == <<fetchVars, parseVars, mainVars>>

None == [tag |-> "None"]
NaN  == [tag |-> "nan"]
Num(v) == [tag |-> "float", v |-> v]
\* a text the user typed
Text(t) == [text |-> t]

(***************************************************************************)
(* Bounds of the model.                                                    *)
(***************************************************************************)
MaxRetriesArg == 4      \* fetch_data is called with max_retries in 0..MaxRetriesArg
MaxDelayArg   == 2      \* ... and delay in 0..MaxDelayArg
MaxRows       == 17     \* a container holds at most MaxRows <tr> rows
PatLen        == 2      \* the rows of a container repeat a pattern of PatLen row kinds
ServedRows    == 3      \* the markup the server sends holds at most ServedRows rows

(***************************************************************************)
(* Program constants.                                                      *)
(***************************************************************************)
DEFAULT_MAX_RETRIES == 3
DEFAULT_DELAY       == 2
ROWS_FROM           == 1
ROWS_TO             == 16
HTTP_ERROR_FROM     == 400
HTTP_ERROR_TO       == 599

(***************************************************************************)
(* Texts: str.strip and float.                                             *)
(***************************************************************************)
Whitespace == {" "}
Parens     == {"(", ")"}
Digits     == {"0", "1", "2", "3", "4", "5", "6", "7", "8", "9"}

DigitVal(c) ==
    CASE c = "0" -> 0 [] c = "1" -> 1 [] c = "2" -> 2 [] c = "3" -> 3
      [] c = "4" -> 4 [] c = "5" -> 5 [] c = "6" -> 6 [] c = "7" -> 7
      [] c = "8" -> 8 [] c = "9" -> 9

DigitChar(d) ==
    CASE d = 0 -> "0" [] d = 1 -> "1" [] d = 2 -> "2" [] d = 3 -> "3"
      [] d = 4 -> "4" [] d = 5 -> "5" [] d = 6 -> "6" [] d = 7 -> "7"
      [] d = 8 -> "8" [] d = 9 -> "9"

RECURSIVE lstrip(_, _)
lstrip(s, cs) ==
    IF s # <<>> /\ Head(s) \in cs THEN lstrip(Tail(s), cs) ELSE s

RECURSIVE rstrip(_, _)
rstrip(s, cs) ==
    IF s # <<>> /\ s[Len(s)] \in cs
    THEN rstrip(SubSeq(s, 1, Len(s) - 1), cs)
    ELSE s

\* str.strip(chars): the characters of cs removed from both ends
strip(s, cs) == rstrip(lstrip(s, cs), cs)

ValueError == [tag |-> "raise", exc |-> "ValueError"]
TypeError  == [tag |-> "raise", exc |-> "TypeError"]

IsDigits(s) == \A i \in 1..Len(s) : s[i] \in Digits

RECURSIVE IntOf(_)
IntOf(s) ==
    IF s = <<>> THEN 0
    ELSE IntOf(SubSeq(s, 1, Len(s) - 1)) * 10 + DigitVal(s[Len(s)])

\* float(text) for texts without sign, exponent, underscore or inf/nan
\* spelling: digits with at most one point and at least one digit; anything
\* else raises ValueError.  The value is in tenths.
float(s) ==
    LET t    == strip(s, Whitespace)
        dots == {i \in 1..Len(t) : t[i] = "."}
    IN  IF dots = {}
        THEN IF t # <<>> /\ IsDigits(t) THEN Num(IntOf(t) * 10) ELSE ValueError
        ELSE IF Cardinality(dots) = 1
        THEN LET d  == CHOOSE i \in dots : TRUE
                 ip == SubSeq(t, 1, d - 1)
                 fp == SubSeq(t, d + 1, Len(t))
             IN  IF IsDigits(ip) /\ IsDigits(fp) /\ Len(ip) + Len(fp) > 0
                 THEN Num(IntOf(ip) * 10 + (IF fp = <<>> THEN 0 ELSE DigitVal(fp[1])))
                 ELSE ValueError
        ELSE ValueError

(***************************************************************************)
(* The markup.  A document holds at most one <div id=...> container; a     *)
(* container is the sequence of its <tr> rows in document order.  A row    *)
(* is described by the elements the extractor looks for in it:             *)
(*   who   - whether it has a <td class="who"> cell                        *)
(*   link  - the <a> of that cell, or None                                 *)
(*   desc  - the <span class="desc"> of that cell, or None                 *)
(*   value - the <td class="value"> cell, or None                          *)
(* and pos, its position among the rows of the container.                  *)
(***************************************************************************)
Elem(text) == [tag |-> "elem", text |-> text]

NameText(pos) == <<" ", "P", DigitChar(pos \div 10), DigitChar(pos % 10), " ">>

RowKinds == <<
    \* a well-formed row
    [who |-> TRUE,  link |-> TRUE,  desc |-> Elem(<<"(", "P", "H", "O", ")">>),
     value |-> Elem(<<"2", "7", ".", "3">>)],
    \* a row without a player cell (a header or separator row)
    [who |-> FALSE, link |-> FALSE, desc |-> None,
     value |-> Elem(<<"9", ".", "5">>)],
    \* a player cell without link and without affiliation, value zero
    [who |-> TRUE,  link |-> FALSE, desc |-> None,
     value |-> Elem(<<" ", "0", " ">>)],
    \* no value cell
    [who |-> TRUE,  link |-> TRUE,  desc |-> Elem(<<" ", "(", "L", "A", "L", ")", " ">>),
     value |-> None],
    \* a value cell whose text is not a number
    [who |-> TRUE,  link |-> TRUE,  desc |-> Elem(<<>>),
     value |-> Elem(<<"a", "b">>)],
    \* an empty value cell
    [who |-> TRUE,  link |-> TRUE,  desc |-> Elem(<<"(", "P", "H", "O", ")">>),
     value |-> Elem(<<" ">>)] >>

MkRow(pos, k) ==
    [pos   |-> pos,
     who   |-> RowKinds[k].who,
     link  |-> IF RowKinds[k].link THEN Elem(NameText(pos)) ELSE None,
     desc  |-> RowKinds[k].desc,
     value |-> RowKinds[k].value]

Patterns == [1..PatLen -> 1..Len(RowKinds)]

RowsOf(n, pat) == [i \in 1..n |-> MkRow(i, pat[((i - 1) % PatLen) + 1])]

DivIds == {"leaders_pts_per_g", "leaders_fg_pct"}

Html(id, rows) == [tag |-> "html", id |-> id, rows |-> rows]

\* a page without any of the containers
NoDivPage == Html("", <<>>)

Docs(maxRows) ==
    {NoDivPage} \cup
    {Html(id, RowsOf(n, pat)) : id \in DivIds, n \in 0..maxRows, pat \in Patterns}

(***************************************************************************)
(* parse_data                                                              *)
(***************************************************************************)
Min(a, b) == IF a < b THEN a ELSE b

\* BeautifulSoup(html_content, 'html.parser'): None is no markup
BeautifulSoup(html) == IF html = None THEN TypeError ELSE html

\* soup.find('div', {'id': stat_id}): the container, or None
find_div(soup, id) ==
    IF soup.id = id THEN [tag |-> "div", rows |-> soup.rows] ELSE None

\* table.find_all('tr')[1:16]
select_rows_all(rows) == SubSeq(rows, ROWS_FROM + 1, Len(rows))
select_rows(rows) == SubSeq(rows, ROWS_FROM + 1, Min(ROWS_TO, Len(rows)))

\* float(value_cell.text.strip()) if value_cell else None
cell_value_zero(value_cell) ==
    IF value_cell # None THEN float(strip(value_cell.text, Whitespace)) ELSE Num(0)
cell_value_lenient(value_cell) ==
    IF value_cell # None
    THEN LET v == float(strip(value_cell.text, Whitespace))
         IN  IF v = ValueError THEN None ELSE v
    ELSE None
cell_value(value_cell) ==
    IF value_cell # None THEN float(strip(value_cell.text, Whitespace)) ELSE None

player_name(player_cell_link) ==
    IF player_cell_link # None THEN strip(player_cell_link.text, Whitespace) ELSE <<>>

team_abbr(team_span) ==
    IF team_span # None
    THEN LET team_text == strip(team_span.text, Whitespace)
         IN  IF team_text # <<>> THEN strip(team_text, Parens) ELSE <<>>
    ELSE <<>>

\* One iteration of the loop over the rows: nothing to append (the row has no
\* player cell), the three values to append, or the exception raised.  src
\* is not a column of the frame: it remembers the row a record was made from.
Record(row) ==
    LET value == cell_value(row.value)
    IN  IF value = ValueError THEN ValueError
        ELSE [tag |-> "rec", Player |-> player_name(row.link),
              Team |-> team_abbr(row.desc), Value |-> value, src |-> row.pos]
row_record_always(row) == Record(row)
row_record(row) ==
    IF row.who THEN Record(row) ELSE [tag |-> "skip"]

RECURSIVE walk_rows(_, _)
walk_rows(rows, acc) ==
    IF rows = <<>> THEN [tag |-> "lists", recs |-> acc]
    ELSE LET r == row_record(Head(rows))
         IN  CASE r.tag = "raise" -> r
               [] r.tag = "skip"  -> walk_rows(Tail(rows), acc)
               [] OTHER           -> walk_rows(Tail(rows), Append(acc, r))

\* pd.DataFrame({...}): a Value column holding a float is a float column, in
\* which None is NaN; a column of None only keeps its None
DataFrame(recs) ==
    LET floats == \E i \in 1..Len(recs) : recs[i].Value.tag = "float"
    IN  [tag  |-> "DataFrame",
         rows |-> [i \in 1..Len(recs) |->
                     IF floats /\ recs[i].Value = None
                     THEN [recs[i] EXCEPT !.Value = NaN]
                     ELSE recs[i]]]

\* the body of the try block: a DataFrame, None, or the exception raised
parse_body(html, id) ==
    LET soup == BeautifulSoup(html)
    IN  IF soup.tag = "raise" THEN soup
        ELSE LET table == find_div(soup, id)
             IN  IF table = None THEN None
                 ELSE LET lists == walk_rows(select_rows(table.rows), <<>>)
                      IN  IF lists.tag = "raise" THEN lists
                          ELSE DataFrame(lists.recs)

\* try: ... except Exception: return None
parse_data_uncaught(html, id) == parse_body(html, id)
parse_data(html, id) ==
    LET r == parse_body(html, id)
    IN  IF r.tag = "raise" THEN None ELSE r

(***************************************************************************)
(* fetch_data                                                              *)
(***************************************************************************)
\* the status codes the server answers with, and a failure of the transport
Statuses == {100, 200, 301, 404, 503}

\* what requests.get gives: a response, or a RequestException raised
Response(status, text) == [kind |-> "response", status |-> status, text |-> text]
ConnectionError        == [kind |-> "ConnectionError", status |-> 0, text |-> NoDivPage]

\* response.raise_for_status(): whether it raises HTTPError
raise_for_status_5xx(status) == status \in 500..HTTP_ERROR_TO
raise_for_status(status) == status \in HTTP_ERROR_FROM..HTTP_ERROR_TO

\* the bodies of the error pages carry no container
Outcomes(served) ==
    {ConnectionError} \cup
    {Response(st, NoDivPage) : st \in {x \in Statuses : raise_for_status(x)}} \cup
    {Response(st, text) : st \in {x \in Statuses : ~raise_for_status(x)}, text \in served}

\* the RequestException of attempt n (1-indexed), or None
attempt_error(r, n) ==
    IF r.kind # "response"
    THEN [tag |-> "raise", exc |-> r.kind, n |-> n]
    ELSE IF raise_for_status(r.status)
    THEN [tag |-> "raise", exc |-> "HTTPError", n |-> n]
    ELSE None

\* wait_time = delay * (attempt + 1)
backoff_from_zero(d, att) == d * att
backoff(d, att) == d * (att + 1)

\* whether the except clause sleeps and goes on: attempt < max_retries - 1
retry_remains(att, maxr) == att < maxr - 1

GetEvent(n, r)   == [op |-> "get", n |-> n, kind |-> r.kind, status |-> r.status]
SleepEvent(secs) == [op |-> "sleep", n |-> secs, kind |-> "sleep", status |-> 0]

\* fetch_data(url, max_retries, delay) is entered
FetchCalled(maxr, d) ==
    /\ max_retries' = maxr
    /\ delay' = d
    /\ attempt' = 0
    /\ wait_time' = 0
    /\ fpc' = "loop"
    /\ trace' = <<>>
    /\ fresult' = None

FetchIdle ==
    /\ max_retries = 0 /\ delay = 0 /\ attempt = 0 /\ wait_time = 0
    /\ fpc = "idle" /\ trace = <<>> /\ fresult = None

\* One iteration of the for loop up to its return, its raise or its sleep;
\* with the range exhausted, the function ends without a return statement.
FetchAttempt(served) ==
    /\ fpc = "loop"
    /\ IF attempt < max_retries
       THEN \E r \in Outcomes(served) :
              LET e == attempt_error(r, attempt + 1)
              IN  /\ trace' = Append(trace, GetEvent(attempt + 1, r))
                  /\ IF e = None
                     THEN /\ fpc' = "returned"
                          /\ fresult' = r.text
                          /\ UNCHANGED wait_time
                     ELSE IF retry_remains(attempt, max_retries)
                     THEN /\ fpc' = "sleep"
                          /\ wait_time' = backoff(delay, attempt)
                          /\ UNCHANGED fresult
                     ELSE /\ fpc' = "raised"
                          /\ fresult' = e
                          /\ UNCHANGED wait_time
       ELSE /\ fpc' = "returned"
            /\ fresult' = None
            /\ UNCHANGED <<trace, wait_time>>
    /\ UNCHANGED <<max_retries, delay, attempt>>

\* time.sleep(wait_time), then the next iteration
FetchSleep ==
    /\ fpc = "sleep"
    /\ trace' = Append(trace, SleepEvent(wait_time))
    /\ attempt' = attempt + 1
    /\ fpc' = "loop"
    /\ UNCHANGED <<max_retries, delay, wait_time, fresult>>

MainIdle ==
    /\ pc = "idle" /\ choice = Text("") /\ df = None /\ csv_path = None
    /\ out = <<>> /\ failure = "none"

ParseIdle ==
    /\ html_content = None /\ stat_id = "" /\ presult = [tag |-> "not called"]

(***************************************************************************)
(* FetchSpec: fetch_data alone, for every max_retries and delay.           *)
(***************************************************************************)
FetchInit ==
    /\ \E maxr \in 0..MaxRetriesArg, d \in 0..MaxDelayArg :
         /\ max_retries = maxr /\ delay = d
    /\ attempt = 0 /\ wait_time = 0 /\ fpc = "loop" /\ trace = <<>> /\ fresult = None
    /\ MainIdle
    /\ ParseIdle

FetchAttemptAlone ==
    /\ FetchAttempt(Docs(0))
    /\ UNCHANGED <<parseVars, mainVars>>

FetchSleepAlone ==
    /\ FetchSleep
    /\ UNCHANGED <<parseVars, mainVars>>

FetchNext == FetchAttemptAlone \/ FetchSleepAlone

FetchSpec == FetchInit /\ [][FetchNext]_vars

(***************************************************************************)
(* ParseSpec: parse_data alone, for every document and table identifier.   *)
(***************************************************************************)
\* sorted(STAT_MAP.keys())
StatNames == <<"3 point percentage", "assists per game", "blocks per game",
               "field goal percentage", "free throw percentage",
               "points per game", "rebounds per game", "steals per game",
               "turnovers per game">>

STAT_MAP ==
    [n \in {StatNames[i] : i \in 1..Len(StatNames)} |->
        CASE n = "points per game"       -> "leaders_pts_per_g"
          [] n = "rebounds per game"     -> "leaders_trb_per_g"
          [] n = "assists per game"      -> "leaders_ast_per_g"
          [] n = "steals per game"       -> "leaders_stl_per_g"
          [] n = "blocks per game"       -> "leaders_blk_per_g"
          [] n = "turnovers per game"    -> "leaders_tov_per_g"
          [] n = "field goal percentage" -> "leaders_fg_pct"
          [] n = "3 point percentage"    -> "leaders_fg3_pct"
          [] n = "free throw percentage" -> "leaders_ft_pct"]

StatIds == {STAT_MAP[n] : n \in DOMAIN STAT_MAP}

NotCalled == [tag |-> "not called"]

ParseInit ==
    /\ html_content \in Docs(MaxRows) \cup {None}
    /\ stat_id \in StatIds
    /\ presult = NotCalled
    /\ FetchIdle
    /\ MainIdle

\* df = parse_data(html_content, stat_id); presult is what the caller gets
ParseCall ==
    /\ presult = NotCalled
    /\ presult' = parse_data(html_content, stat_id)
    /\ UNCHANGED <<html_content, stat_id, fetchVars, mainVars>>

ParseNext == ParseCall

ParseSpec == ParseInit /\ [][ParseNext]_vars

(***************************************************************************)
(* save_to_csv, scrape_statistic and main.                                 *)
(***************************************************************************)
Line(msg) == [msg |-> msg]
Banner        == Line("Basketball Reference Top 15 Leaders Scraper")
Goodbye       == Line("Exiting program. Goodbye!")
InvalidNumber == Line("Invalid choice. Please enter a number between 1 and 9.")
InvalidChoice == Line("Invalid choice. Please select from the available statistics.")
Fetching      == Line("Fetching top 15 leaders for ...")
Header        == Line("Top 15 ... Leaders:")
CouldNot      == Line("Could not retrieve data for ...")
ErrorOccurred == Line("An error occurred: ...")
Separator     == Line("--------------------------------------------------")
Interrupted   == Line("Program interrupted. Exiting gracefully.")
Unexpected    == Line("An unexpected error occurred: ...")
Farewell      == Line("Thank you for using the Basketball Reference Scraper!")
SavedTo(path) == [msg |-> "Data saved to: ...", path |-> path]
RowLine(i, rec, text) ==
    [msg |-> "row", n |-> i, Player |-> rec.Player, Team |-> rec.Team, value |-> text]

\* what the user types, after strip().lower(): a text, or digits
Digits_(d) == [digits |-> d]
Inputs ==
    {Text("quit"), Text("bogus"), Text("points per game"),
     Digits_(<<"0">>), Digits_(<<"4">>), Digits_(<<"6">>), Digits_(<<"1", "0">>)}
isdigit(inp) == "digits" \in DOMAIN inp

\* "percentage" in choice
IsPercentage(name) ==
    name \in {"field goal percentage", "3 point percentage", "free throw percentage"}

\* f"{stat_value:.1f}" and f"{stat_value:.1f}%": None has no such format
format_value(stat_value, name) ==
    IF stat_value = None THEN TypeError
    ELSE [tag |-> "str", v |-> stat_value, pct |-> IsPercentage(name)]

\* the for loop over df.iterrows(): the lines printed, and whether it raised
RECURSIVE print_rows(_, _, _, _)
print_rows(rows, i, name, acc) ==
    IF i > Len(rows) THEN [lines |-> acc, raised |-> FALSE]
    ELSE LET formatted_value == format_value(rows[i].Value, name)
         IN  IF formatted_value.tag = "raise"
             THEN [lines |-> acc, raised |-> TRUE]
             ELSE print_rows(rows, i + 1, name,
                             Append(acc, RowLine(i, rows[i], formatted_value)))

\* the body of the try block of main once scrape_statistic has returned
show_result(d, path, name) ==
    IF d # None
    THEN LET r == print_rows(d.rows, 1, name, <<Header>>)
         IN  IF r.raised THEN r
             ELSE [lines  |-> IF path # None THEN Append(r.lines, SavedTo(path))
                              ELSE r.lines,
                   raised |-> FALSE]
    ELSE [lines |-> <<CouldNot>>, raised |-> FALSE]

\* except Exception as e: print(...); then the separator and the next turn
after_request_unhandled(r) ==
    IF r.raised
    THEN [pc |-> "done", lines |-> r.lines \o <<Unexpected, Farewell>>]
    ELSE [pc |-> "menu", lines |-> Append(r.lines, Separator)]
after_request(r) ==
    IF r.raised
    THEN [pc |-> "menu", lines |-> r.lines \o <<ErrorOccurred, Separator>>]
    ELSE [pc |-> "menu", lines |-> Append(r.lines, Separator)]

\* save_to_csv(df, stat_name): the path, or None when there is nothing to
\* save or df.to_csv raises
save_to_csv(d, name, written) ==
    IF d = None \/ d.rows = <<>> THEN None
    ELSE IF written THEN [tag |-> "path", stat |-> name]
    ELSE None

\* if df is not None and not df.empty: ... else: ...  (lines 158-167); the
\* kind of failure is kept for the properties
scrape_parsed(d, name, written) ==
    IF d # None /\ d.rows # <<>>
    THEN [df |-> d, csv_path |-> save_to_csv(d, name, written), failure |-> "none"]
    ELSE [df |-> None, csv_path |-> None, failure |-> "nodata"]

\* the try block of scrape_statistic once fetch_data has ended: what it
\* returns as (df, csv_path)
scrape_result(fetched, id, name, written) ==
    IF fetched.tag = "raise"
    THEN [df |-> None, csv_path |-> None, failure |-> "retrieval"]
    ELSE scrape_parsed(parse_data(fetched, id), name, written)

MainInit ==
    /\ pc = "start" /\ choice = Text("") /\ df = None /\ csv_path = None
    /\ out = <<>> /\ failure = "none"
    /\ FetchIdle
    /\ ParseIdle

FetchReset ==
    /\ max_retries' = 0 /\ delay' = 0 /\ attempt' = 0 /\ wait_time' = 0
    /\ fpc' = "idle" /\ trace' = <<>> /\ fresult' = None

\* create_output_directory() and the banner; os.makedirs may raise
Start ==
    /\ pc = "start"
    /\ \E made \in BOOLEAN :
         IF made
         THEN pc' = "menu" /\ out' = <<Banner>>
         ELSE pc' = "done" /\ out' = <<Unexpected, Farewell>>
    /\ UNCHANGED <<choice, df, csv_path, failure, fetchVars, parseVars>>

\* input() raises EOFError: the handler of main's outer try
InputFails ==
    /\ pc = "menu"
    /\ pc' = "done"
    /\ out' = <<Unexpected, Farewell>>
    /\ UNCHANGED <<choice, df, csv_path, failure, fetchVars, parseVars>>

\* one turn of the loop up to the call of fetch_data, or up to its end when
\* the input is 'quit' or no statistic.  df and csv_path of the turn before
\* are dead (line 213 assigns them before they are read): they are cleared.
Menu ==
    /\ pc = "menu"
    /\ \E inp \in Inputs :
         LET choice_idx == IntOf(inp.digits) - 1
             inRange    == 0 <= choice_idx /\ choice_idx < Len(StatNames)
             chosen     == IF isdigit(inp) /\ inRange
                           THEN Text(StatNames[choice_idx + 1]) ELSE inp
         IN  /\ choice' = chosen
             /\ failure' = "none"
             /\ IF inp = Text("quit")
                THEN /\ pc' = "done"
                     /\ out' = <<Goodbye, Farewell>>
                     /\ UNCHANGED <<fetchVars, stat_id>>
                ELSE IF isdigit(inp) /\ ~inRange
                THEN /\ pc' = "menu"
                     /\ out' = <<InvalidNumber>>
                     /\ UNCHANGED <<fetchVars, stat_id>>
                ELSE IF ~isdigit(chosen) /\ chosen.text \in DOMAIN STAT_MAP
                THEN /\ pc' = "fetch"
                     /\ out' = <<Fetching>>
                     /\ stat_id' = STAT_MAP[chosen.text]
                     /\ FetchCalled(DEFAULT_MAX_RETRIES, DEFAULT_DELAY)
                ELSE /\ pc' = "menu"
                     /\ out' = <<InvalidChoice, Separator>>
                     /\ UNCHANGED <<fetchVars, stat_id>>
    /\ df' = None
    /\ csv_path' = None
    /\ UNCHANGED <<html_content, presult>>

FetchAttemptMain ==
    /\ pc = "fetch"
    /\ FetchAttempt(Docs(ServedRows))
    /\ UNCHANGED <<parseVars, mainVars>>

FetchSleepMain ==
    /\ pc = "fetch"
    /\ FetchSleep
    /\ UNCHANGED <<parseVars, mainVars>>

\* fetch_data has ended: the rest of scrape_statistic, to its return
Scrape ==
    /\ pc = "fetch"
    /\ fpc \in {"returned", "raised"}
    /\ \E written \in BOOLEAN :
         LET r == scrape_result(fresult, stat_id, choice.text, written)
         IN  /\ df' = r.df
             /\ csv_path' = r.csv_path
             /\ failure' = r.failure
    /\ pc' = "show"
    /\ stat_id' = ""
    /\ FetchReset
    /\ UNCHANGED <<choice, out, html_content, presult>>

\* the result is shown, or the error reported, and the loop goes on
Show ==
    /\ pc = "show"
    /\ LET r == show_result(df, csv_path, choice.text)
           a == after_request(r)
       IN  /\ pc' = a.pc
           /\ out' = out \o a.lines
           /\ failure' = IF r.raised THEN "format" ELSE failure
    /\ UNCHANGED <<choice, df, csv_path, fetchVars, parseVars>>

\* KeyboardInterrupt, raised anywhere in main
Interrupt ==
    /\ pc \in {"start", "menu", "fetch", "show"}
    /\ pc' = "done"
    /\ out' = out \o <<Interrupted, Farewell>>
    /\ stat_id' = ""
    /\ FetchReset
    /\ UNCHANGED <<choice, df, csv_path, failure, html_content, presult>>

Next ==
    \/ Start
    \/ InputFails
    \/ Menu
    \/ FetchAttemptMain
    \/ FetchSleepMain
    \/ Scrape
    \/ Show
    \/ Interrupt

Spec == MainInit /\ [][Next]_vars

(***************************************************************************)
(* Properties of parse_data (checked under ParseSpec).                     *)
(***************************************************************************)
Called      == presult # NotCalled
HasDiv      == html_content # None /\ html_content.id = stat_id
InRows      == html_content.rows
\* the positions of the 2nd through 16th row of the container
SelectedPos == {i \in 2..16 : i <= Len(InRows)}
IsAbsent(v) == v \in {None, NaN}
NotNumeric(row) ==
    /\ row.value # None
    /\ float(strip(row.value.text, Whitespace)) = ValueError
\* the records made from the row at position i
RecsOf(i) == {k \in 1..Len(presult.rows) : presult.rows[k].src = i}

\* C3: a returned record set has at most 15 records, each made from one of
\* the selected rows, no row used twice, in the order of the rows.
C3_AtMost15InOrder ==
    (Called /\ presult.tag = "DataFrame") =>
        /\ Len(presult.rows) <= 15
        /\ \A k \in 1..Len(presult.rows) : presult.rows[k].src \in SelectedPos
        /\ \A j, k \in 1..Len(presult.rows) :
             j < k => presult.rows[j].src < presult.rows[k].src

C3_Witness ==
    /\ Called /\ presult.tag = "DataFrame"
    /\ Len(InRows) = 17
    /\ Len(presult.rows) = 15
    /\ presult.rows[15].src = 16

\* C4 as claimed: a selected row whose value cell holds no number still
\* gets a record, with the value absent, and the record set is returned.
C4_Claim ==
    (Called /\ HasDiv) =>
        \A i \in SelectedPos :
            (InRows[i].who /\ NotNumeric(InRows[i])) =>
                /\ presult.tag = "DataFrame"
                /\ \E k \in RecsOf(i) : IsAbsent(presult.rows[k].Value)

\* C4 as amended: such a row makes parse_data return None, so no row of the
\* container gets a record.
C4_UnparsableFailsExtraction ==
    (Called /\ HasDiv) =>
        ((\E i \in SelectedPos : InRows[i].who /\ NotNumeric(InRows[i]))
            => presult = None)

C4_Witness ==
    /\ Called /\ HasDiv /\ presult = None
    /\ Len(InRows) >= 3
    /\ InRows[2].who /\ InRows[2].value # None /\ ~NotNumeric(InRows[2])
    /\ InRows[3].who /\ NotNumeric(InRows[3])

\* C5 as claimed: every selected row yields one record, so their number is
\* min(15, number of rows after the header row).
C5_Claim ==
    (Called /\ presult.tag = "DataFrame") =>
        /\ \A i \in SelectedPos : Cardinality(RecsOf(i)) = 1
        /\ Len(presult.rows) =
             (IF Len(InRows) = 0 THEN 0 ELSE Min(15, Len(InRows) - 1))

\* C5 as amended: in a returned record set every selected row with a player
\* cell yields one record, its missing name link, affiliation span and value
\* cell defaulting to empty, empty and absent; a selected row without a
\* player cell yields none; the number of records is the number of selected
\* rows with a player cell.
C5_OneRecordPerPlayerRow ==
    (Called /\ presult.tag = "DataFrame") =>
        /\ \A i \in SelectedPos :
             IF InRows[i].who
             THEN /\ Cardinality(RecsOf(i)) = 1
                  /\ \A k \in RecsOf(i) :
                       /\ InRows[i].link  = None => presult.rows[k].Player = <<>>
                       /\ InRows[i].desc  = None => presult.rows[k].Team = <<>>
                       /\ InRows[i].value = None => IsAbsent(presult.rows[k].Value)
             ELSE RecsOf(i) = {}
        /\ Len(presult.rows) = Cardinality({i \in SelectedPos : InRows[i].who})

C5_Witness ==
    /\ Called /\ presult.tag = "DataFrame"
    /\ Len(InRows) = 17
    /\ ~InRows[2].who /\ InRows[3].who /\ InRows[3].link = None
    /\ Len(presult.rows) >= 1
    /\ Len(presult.rows) < Cardinality(SelectedPos)

\* C6 as claimed: a selected row with a player cell and no value cell gets a
\* record whose value is absent, whatever the other rows are.
C6_Claim ==
    (Called /\ HasDiv) =>
        \A i \in SelectedPos :
            (InRows[i].who /\ InRows[i].value = None) =>
                /\ presult.tag = "DataFrame"
                /\ \E k \in RecsOf(i) : IsAbsent(presult.rows[k].Value)

\* C6 as amended: in a returned record set such a row has one record, whose
\* value is absent and not zero; and parse_data returns a record set unless
\* some selected row with a player cell has a value cell holding no number,
\* so that a missing value cell never makes the extraction fail.
C6_MissingValueIsAbsent ==
    (Called /\ HasDiv) =>
        /\ presult.tag # "raise"
        /\ presult.tag = "DataFrame" =>
             \A i \in SelectedPos :
                (InRows[i].who /\ InRows[i].value = None) =>
                    /\ Cardinality(RecsOf(i)) = 1
                    /\ \A k \in RecsOf(i) :
                         /\ IsAbsent(presult.rows[k].Value)
                         /\ presult.rows[k].Value # Num(0)
        /\ presult.tag # "DataFrame" =>
             \E i \in SelectedPos : InRows[i].who /\ NotNumeric(InRows[i])

C6_Witness ==
    /\ Called /\ presult.tag = "DataFrame"
    /\ Len(InRows) >= 3
    /\ InRows[2].who /\ InRows[2].value = None
    /\ InRows[3].who /\ InRows[3].value # None
    /\ presult.rows[1].Value = NaN
    /\ presult.rows[2].Value.tag = "float"

\* C7: parse_data gives its caller a record set or None, never an
\* exception: None when the markup has no container with the identifier,
\* and None when the traversal raises.
C7_NeverRaises ==
    Called =>
        /\ presult.tag \in {"DataFrame", "None"}
        /\ ~HasDiv => presult = None
        /\ parse_body(html_content, stat_id).tag = "raise" => presult = None

C7_Witness ==
    /\ Called /\ HasDiv /\ presult = None
    /\ parse_body(html_content, stat_id) = ValueError

(***************************************************************************)
(* Properties of fetch_data (checked under FetchSpec).                     *)
(***************************************************************************)
Finished   == fpc \in {"returned", "raised"}
GetIdx     == {i \in 1..Len(trace) : trace[i].op = "get"}
\* an attempt that met a transport failure or a 4xx/5xx status
Failed4xx5xx(ev) == ev.kind # "response" \/ ev.status \in 400..599
\* an attempt that met a transport failure or any status outside 200-299
FailedNon2xx(ev) == ev.kind # "response" \/ ev.status \notin 200..299

RetriedAfter(i) ==
    IF i = Len(trace) THEN fpc = "sleep"
    ELSE /\ trace[i + 1].op = "sleep"
         /\ IF i + 1 = Len(trace) THEN fpc = "loop"
            ELSE trace[i + 2].op = "get" /\ trace[i + 2].n = trace[i].n + 1

\* C2 as claimed: an attempt that met a transport failure or a status
\* outside 200-299 is not the one fetch_data returns from, and is followed
\* by a retry if attempts remain.
C2_Claim ==
    \A i \in GetIdx :
        FailedNon2xx(trace[i]) =>
            /\ ~(fpc = "returned" /\ i = Len(trace))
            /\ trace[i].n < max_retries => RetriedAfter(i)

\* C2 as amended: that holds of a transport failure and of a 4xx or 5xx
\* status; a response with any other status (1xx and 3xx as well as 2xx)
\* ends the call, which returns the body of that response.
C2_Only4xx5xxFail ==
    \A i \in GetIdx :
        IF Failed4xx5xx(trace[i])
        THEN /\ ~(fpc = "returned" /\ i = Len(trace))
             /\ trace[i].n < max_retries => RetriedAfter(i)
             /\ trace[i].n >= max_retries => (i = Len(trace) /\ fpc = "raised")
        ELSE /\ i = Len(trace)
             /\ fpc = "returned"
             /\ fresult.tag = "html"

C2_Witness ==
    /\ fpc = "returned" /\ Len(trace) = 3
    /\ trace[1].status = 404
    /\ trace[3].status = 301
    /\ fresult.tag = "html"

\* C10: for every max_retries >= 0, fetch_data either returns the markup of
\* its first successful attempt, with nothing done after it, or raises; it
\* never returns without markup.
C10_Claim ==
    (Finished /\ max_retries >= 0) =>
        \/ /\ fpc = "returned"
           /\ fresult.tag = "html"
           /\ trace # <<>>
           /\ \A i \in GetIdx : ~Failed4xx5xx(trace[i]) <=> i = Len(trace)
        \/ /\ fpc = "raised"
           /\ fresult.tag = "raise"

(***************************************************************************)
(* Properties of main and scrape_statistic (checked under Spec).           *)
(***************************************************************************)
Printed == {out[i] : i \in 1..Len(out)}
LastLine == out[Len(out)]

\* C8: a failed request (retrieval error after the retries, no table or no
\* data extracted, an error while formatting a row) is reported and the
\* menu is prompted again; a request in progress ends the loop only by an
\* interrupt; the loop ends only on 'quit', on an interrupt or on an error
\* raised outside the request, and the farewell is then the last line.
C8_Reported ==
    (pc = "menu" /\ failure # "none") =>
        /\ LastLine = Separator
        /\ IF failure = "format" THEN ErrorOccurred \in Printed
                                 ELSE CouldNot \in Printed
C8_Farewell ==
    pc = "done" =>
        /\ LastLine = Farewell
        /\ \/ Goodbye \in Printed
           \/ Interrupted \in Printed
           \/ Unexpected \in Printed
C8_RequestStep ==
    /\ (pc \in {"fetch", "show"} /\ pc' = "done") =>
          (Interrupted \in {out'[i] : i \in 1..Len(out')})
    /\ (pc = "show" /\ pc' # "done") => pc' = "menu"
    /\ (pc = "fetch" /\ pc' # "done") => pc' \in {"fetch", "show"}
    /\ (pc' = "done" /\ Unexpected \in {out'[i] : i \in 1..Len(out')}) =>
          pc \in {"start", "menu"}
C8_FailedRequestKeepsLoop ==
    /\ [](C8_Reported /\ C8_Farewell)
    /\ [][C8_RequestStep]_vars

C8_Witness ==
    /\ pc = "menu" /\ failure = "retrieval"
    /\ out = <<Fetching, CouldNot, Separator>>

C8_WitnessFormat ==
    /\ pc = "menu" /\ failure = "format"
    /\ ErrorOccurred \in Printed

\* C9: with a non-empty record set extracted and the file not written,
\* scrape_statistic returns the records with no path and main displays every
\* one of them; only the 'Data saved to' line is missing.
C9_Claim ==
    (pc = "menu" /\ df # None /\ csv_path = None) =>
        /\ \A i \in 1..Len(df.rows) :
             \E l \in Printed :
                /\ l.msg = "row" /\ l.n = i
                /\ l.Player = df.rows[i].Player
                /\ l.Team = df.rows[i].Team
        /\ \A l \in Printed : l.msg # "Data saved to: ..."

\* the part of C9 that the code keeps: the same holds whenever some record
\* of the set has a number as its value
C9_DisplayedWhenSomeValue ==
    (pc = "menu" /\ df # None /\ csv_path = None
        /\ \E i \in 1..Len(df.rows) : df.rows[i].Value.tag = "float") =>
        /\ \A i \in 1..Len(df.rows) :
             \E l \in Printed :
                /\ l.msg = "row" /\ l.n = i
                /\ l.Player = df.rows[i].Player
                /\ l.Team = df.rows[i].Team
        /\ \A l \in Printed : l.msg # "Data saved to: ..."

====
